---- MODULE Spec2Model ----
(***************************************************************************)
(* Model of exhale/graph.py: ExhaleNode and the parsing half of ExhaleRoot *)
(* (parse, discoverAllNodes, reparentAll and its sub-passes,               *)
(* fileRefDiscovery, filePostProcess, sortInternals).                      *)
(*                                                                         *)
(* Python strings are modelled as sequences of one-character strings so    *)
(* that split, join, substring tests, lower() and lexicographic comparison *)
(* are computed, not assumed.  ExhaleNode objects live in the heap `nodes`;*)
(* an object's identity is its index in the heap, None is 0.               *)
(***************************************************************************)
EXTENDS Integers, Sequences, FiniteSets, TLC

(***************************************************************************)
(* Bounds of the model                                                     *)
(***************************************************************************)
\* longest index.xml (number of <compound> elements) that is enumerated
MaxCompounds == 3

(***************************************************************************)
(* Python str                                                              *)
(***************************************************************************)
UpperChars == <<"A","B","C","D","E","F","G","H","I","J","K","L","M",
                "N","O","P","Q","R","S","T","U","V","W","X","Y","Z">>

LowerChars == <<"a","b","c","d","e","f","g","h","i","j","k","l","m",
                "n","o","p","q","r","s","t","u","v","w","x","y","z">>

IndexIn(c, chars) == CHOOSE i \in 1..Len(chars) : chars[i] = c

IsUpper(c) == \E i \in 1..Len(UpperChars) : UpperChars[i] = c

IsLower(c) == \E i \in 1..Len(LowerChars) : LowerChars[i] = c

\* ord(c) for the characters that occur in names, paths and refids
CodePoint(c) ==
    IF IsUpper(c) THEN 64 + IndexIn(c, UpperChars)
    ELSE IF IsLower(c) THEN 96 + IndexIn(c, LowerChars)
    ELSE CASE c = "." -> 46
           [] c = "/" -> 47
           [] c = "1" -> 49
           [] c = "2" -> 50
           [] c = ":" -> 58
           [] c = "_" -> 95
           [] OTHER   -> 0

\* str.lower()
Lower(s) == [i \in 1..Len(s) |->
               IF IsUpper(s[i]) THEN LowerChars[IndexIn(s[i], UpperChars)] ELSE s[i]]

\* a < b on str: lexicographic by code point, a proper prefix is smaller
RECURSIVE StrLt(_, _)
StrLt(a, b) ==
    IF b = <<>> THEN FALSE
    ELSE IF a = <<>> THEN TRUE
    ELSE IF CodePoint(a[1]) # CodePoint(b[1]) THEN CodePoint(a[1]) < CodePoint(b[1])
    ELSE StrLt(Tail(a), Tail(b))

\* s[i:i+len(sub)] == sub
MatchAt(sub, s, i) ==
    /\ i + Len(sub) - 1 <= Len(s)
    /\ \A k \in 1..Len(sub) : s[i + k - 1] = sub[k]

\* sub in s
Contains(sub, s) == \E i \in 1..(Len(s) + 1) : MatchAt(sub, s, i)

\* s.startswith(p)
StartsWith(s, p) == MatchAt(p, s, 1)

\* s.split(sep), sep non-empty: always at least one part
RECURSIVE SplitFrom(_, _, _, _)
SplitFrom(s, sep, i, cur) ==
    IF i > Len(s) THEN <<cur>>
    ELSE IF MatchAt(sep, s, i) THEN <<cur>> \o SplitFrom(s, sep, i + Len(sep), <<>>)
    ELSE SplitFrom(s, sep, i + 1, Append(cur, s[i]))

Split(s, sep) == SplitFrom(s, sep, 1, <<>>)

\* sep.join(parts)
RECURSIVE Join(_, _)
Join(sep, parts) ==
    IF parts = <<>> THEN <<>>
    ELSE IF Len(parts) = 1 THEN parts[1]
    ELSE parts[1] \o sep \o Join(sep, Tail(parts))

ScopeSep == <<":", ":">>

PathSep == <<"/">>

\* lst[:-k]
DropLast(lst, k) == IF Len(lst) <= k THEN <<>> ELSE SubSeq(lst, 1, Len(lst) - k)

(***************************************************************************)
(* Python list helpers                                                     *)
(***************************************************************************)
Range(lst) == {lst[i] : i \in 1..Len(lst)}

\* x in lst
InList(x, lst) == \E i \in 1..Len(lst) : lst[i] = x

\* lst.remove(x): drops the first occurrence
RemoveFirst(lst, x) ==
    IF ~InList(x, lst) THEN lst
    ELSE LET i == CHOOSE k \in 1..Len(lst) : lst[k] = x /\ \A j \in 1..(k - 1) : lst[j] # x
         IN  SubSeq(lst, 1, i - 1) \o SubSeq(lst, i + 1, Len(lst))

RECURSIVE RemoveAll(_, _)
RemoveAll(lst, removals) ==
    IF removals = <<>> THEN lst
    ELSE RemoveAll(RemoveFirst(lst, removals[1]), Tail(removals))

Reverse(lst) == [i \in 1..Len(lst) |-> lst[Len(lst) + 1 - i]]

InsertAt(lst, pos, x) == SubSeq(lst, 1, pos - 1) \o <<x>> \o SubSeq(lst, pos, Len(lst))

\* all orders in which the members of S can be listed
RECURSIVE Perms(_)
Perms(S) ==
    IF S = {} THEN {<<>>}
    ELSE UNION {{<<x>> \o p : p \in Perms(S \ {x})} : x \in S}

(***************************************************************************)
(* list.sort() as CPython runs it on a short list (fewer than 64 items):   *)
(* the leading run is found (a strictly descending one is reversed) and    *)
(* the rest is added by binary insertion.  lt[<<x, y>>] is x < y.          *)
(***************************************************************************)
RECURSIVE AscRunEnd(_, _, _)
AscRunEnd(lst, lt, i) ==
    IF i > Len(lst) \/ lt[<<lst[i], lst[i - 1]>>] THEN i - 1
    ELSE AscRunEnd(lst, lt, i + 1)

RECURSIVE DescRunEnd(_, _, _)
DescRunEnd(lst, lt, i) ==
    IF i > Len(lst) \/ ~lt[<<lst[i], lst[i - 1]>>] THEN i - 1
    ELSE DescRunEnd(lst, lt, i + 1)

RECURSIVE BisectRight(_, _, _, _, _)
BisectRight(lst, lt, pivot, l, r) ==
    IF l >= r THEN l
    ELSE LET p == l + ((r - l) \div 2)
         IN  IF lt[<<pivot, lst[p]>>] THEN BisectRight(lst, lt, pivot, l, p)
             ELSE BisectRight(lst, lt, pivot, p + 1, r)

RECURSIVE BinarySort(_, _, _)
BinarySort(lst, lt, start) ==
    IF start > Len(lst) THEN lst
    ELSE LET pivot == lst[start]
             pos   == BisectRight(lst, lt, pivot, 1, start)
             moved == InsertAt(SubSeq(lst, 1, start - 1), pos, pivot)
                          \o SubSeq(lst, start + 1, Len(lst))
         IN  BinarySort(moved, lt, start + 1)

PySort(lst, lt) ==
    IF Len(lst) < 2 THEN lst
    ELSE IF lt[<<lst[2], lst[1]>>]
         THEN LET e == DescRunEnd(lst, lt, 3)
              IN  BinarySort(Reverse(SubSeq(lst, 1, e)) \o SubSeq(lst, e + 1, Len(lst)),
                             lt, e + 1)
         ELSE BinarySort(lst, lt, AscRunEnd(lst, lt, 3) + 1)

(***************************************************************************)
(* ExhaleNode                                                              *)
(***************************************************************************)
Kinds == {"class", "struct", "union", "enum", "enumvalue", "namespace", "file",
          "dir", "function", "variable", "typedef", "define", "group"}

\* the kind tag as a Python str, for `self.kind < other.kind`
KindText(kind) ==
    CASE kind = "class"     -> <<"c","l","a","s","s">>
      [] kind = "struct"    -> <<"s","t","r","u","c","t">>
      [] kind = "union"     -> <<"u","n","i","o","n">>
      [] kind = "enum"      -> <<"e","n","u","m">>
      [] kind = "enumvalue" -> <<"e","n","u","m","v","a","l","u","e">>
      [] kind = "namespace" -> <<"n","a","m","e","s","p","a","c","e">>
      [] kind = "file"      -> <<"f","i","l","e">>
      [] kind = "dir"       -> <<"d","i","r">>
      [] kind = "function"  -> <<"f","u","n","c","t","i","o","n">>
      [] kind = "variable"  -> <<"v","a","r","i","a","b","l","e">>
      [] kind = "typedef"   -> <<"t","y","p","e","d","e","f">>
      [] kind = "define"    -> <<"d","e","f","i","n","e">>
      [] kind = "group"     -> <<"g","r","o","u","p">>

\* ExhaleNode.__init__; the file-only attributes are carried by every node
\* and stay at their defaults for other kinds.  loc_attr tells whether the
\* attribute def_in_file_location exists ("unset"), is None or is a str.
ExhaleNode(name, kind, refid) ==
    [name |-> name, kind |-> kind, refid |-> refid,
     def_in_file |-> 0, children |-> <<>>, parent |-> 0,
     has_soup |-> FALSE, loc_attr |-> "unset", def_in_file_location |-> <<>>,
     namespaces_used |-> <<>>, includes |-> <<>>, included_by |-> <<>>,
     location |-> <<>>, program_listing |-> <<>>]

\* ExhaleNode.__lt__ on two node values
NodeLt(a, b) ==
    IF a.kind = b.kind THEN StrLt(Lower(a.name), Lower(b.name))
    ELSE IF a.kind = "struct" \/ a.kind = "class"
         THEN IF b.kind # "struct" /\ b.kind # "class" THEN TRUE
              ELSE IF a.kind = "struct" /\ b.kind = "class" THEN TRUE
              ELSE IF a.kind = "class" /\ b.kind = "struct" THEN FALSE
              ELSE StrLt(Lower(a.name), Lower(b.name))
    ELSE StrLt(KindText(a.kind), KindText(b.kind))

\* the comparison table list.sort() consults for the nodes of lst
LtTable(heap, lst) ==
    [p \in Range(lst) \X Range(lst) |-> NodeLt(heap[p[1]], heap[p[2]])]

\* SortNodes that loses the last Node of the sorted list
SortNodes_short(heap, lst) == DropLast(PySort(lst, LtTable(heap, lst)), 1)

\* lst.sort() on a list of node references
SortNodes(heap, lst) == PySort(lst, LtTable(heap, lst))

(***************************************************************************)
(* ExhaleRoot.__init__: the graph value the passes transform               *)
(***************************************************************************)
EmptyRoot ==
    [nodes |-> <<>>, all_nodes |-> <<>>, node_by_refid |-> [r \in {} |-> 0],
     class_like |-> <<>>, defines |-> <<>>, enums |-> <<>>, enum_values |-> <<>>,
     functions |-> <<>>, dirs |-> <<>>, files |-> <<>>, groups |-> <<>>,
     namespaces |-> <<>>, typedefs |-> <<>>, unions |-> <<>>, variables |-> <<>>,
     diag |-> {}, crashed |-> FALSE]

\* refid in self.node_by_refid
Known(G, refid) == refid \in DOMAIN G.node_by_refid

\* a diagnostic written by exclaimError
Diagnostic(type, node, a, b) == [type |-> type, node |-> node, a |-> a, b |-> b]

Report(G, d) == [G EXCEPT !.diag = @ \cup {d}]

\* an uncaught exception leaves parse(); the mutations made so far stay
Raise(G) == [G EXCEPT !.crashed = TRUE]

\* allocation of a new ExhaleNode object; its identity is Len(G.nodes) + 1
Alloc(G, name, kind, refid) ==
    [G EXCEPT !.nodes = Append(@, ExhaleNode(name, kind, refid))]

\* ExhaleRoot.trackNodeIfUnseen: `node not in self.all_nodes` compares with
\* the default ==, which is object identity (ExhaleNode defines no __eq__)
trackNodeIfUnseen(G, node) ==
    IF InList(node, G.all_nodes) THEN G
    ELSE LET kind == G.nodes[node].kind
             G1   == [G EXCEPT !.all_nodes = Append(@, node),
                               !.node_by_refid = (G.nodes[node].refid :> node) @@ @]
         IN  CASE kind = "class" \/ kind = "struct" -> [G1 EXCEPT !.class_like = Append(@, node)]
               [] kind = "namespace" -> [G1 EXCEPT !.namespaces  = Append(@, node)]
               [] kind = "enum"      -> [G1 EXCEPT !.enums       = Append(@, node)]
               [] kind = "enumvalue" -> [G1 EXCEPT !.enum_values = Append(@, node)]
               [] kind = "define"    -> [G1 EXCEPT !.defines     = Append(@, node)]
               [] kind = "file"      -> [G1 EXCEPT !.files       = Append(@, node)]
               [] kind = "dir"       -> [G1 EXCEPT !.dirs        = Append(@, node)]
               [] kind = "function"  -> [G1 EXCEPT !.functions   = Append(@, node)]
               [] kind = "variable"  -> [G1 EXCEPT !.variables   = Append(@, node)]
               [] kind = "group"     -> [G1 EXCEPT !.groups      = Append(@, node)]
               [] kind = "typedef"   -> [G1 EXCEPT !.typedefs    = Append(@, node)]
               [] kind = "union"     -> [G1 EXCEPT !.unions      = Append(@, node)]
               [] OTHER              -> G1

(***************************************************************************)
(* discoverAllNodes, part 1: the <compound> elements of index.xml          *)
(***************************************************************************)
\* LinkMember with the child's parent set whatever the owner's kind
LinkMember_parent(G, curr_kind, curr_node, child_node) ==
    IF curr_kind = "namespace"
    THEN [G EXCEPT !.nodes[child_node].parent = curr_node]
    ELSE [G EXCEPT !.nodes[child_node].parent = curr_node,
                   !.nodes[child_node].def_in_file = curr_node]

\* the owner a member is linked to (lines 976-979)
LinkMember(G, curr_kind, curr_node, child_node) ==
    IF curr_kind = "namespace"
    THEN [G EXCEPT !.nodes[child_node].parent = curr_node]
    ELSE [G EXCEPT !.nodes[child_node].def_in_file = curr_node]

RECURSIVE discoverMembers(_, _, _, _)
discoverMembers(G, curr_kind, curr_node, members) ==
    IF members = <<>> THEN G
    ELSE LET m          == members[1]
             child_node == Len(G.nodes) + 1
             G1 == trackNodeIfUnseen(Alloc(G, m.name, m.kind, m.refid), child_node)
             G2 == LinkMember(G1, curr_kind, curr_node, child_node)
             G3 == [G2 EXCEPT !.nodes[curr_node].children = Append(@, child_node)]
         IN  discoverMembers(G3, curr_kind, curr_node, Tail(members))

RECURSIVE discoverCompounds(_, _)
discoverCompounds(G, compounds) ==
    IF compounds = <<>> THEN G
    ELSE LET c         == compounds[1]
             curr_node == Len(G.nodes) + 1
             G1 == trackNodeIfUnseen(Alloc(G, c.name, c.kind, c.refid), curr_node)
             G2 == IF c.kind = "namespace" \/ c.kind = "file"
                   THEN discoverMembers(G1, c.kind, curr_node, c.members)
                   ELSE G1
         IN  discoverCompounds(G2, Tail(compounds))

(***************************************************************************)
(* The Doxygen detail records (<refid>.xml), as the code reads them.       *)
(* xml[refid] is a record                                                  *)
(*   status       "ok", "missing" (no file, or empty), "unparseable"       *)
(*                (BeautifulSoup raises) or "malformed" (no compounddef)   *)
(*   inner        the <inner...> children: [tag, refid]                    *)
(*   memberdef    ids of the <memberdef> children of the compounddef       *)
(*   members      the <memberdef> of the <sectiondef>s: [id, has_file, file]*)
(*   has_location, location   the <location file=...> of the compounddef   *)
(*   includes, included_by                                                 *)
(*   listing_refs the <ref> elements of the <programlisting>:              *)
(*                [refid, kindref]                                         *)
(*   listing      the text lines of the <programlisting>                   *)
(***************************************************************************)
VARIABLES index, xml

NoRecord ==
    [status |-> "missing", inner |-> <<>>, memberdef |-> <<>>, members |-> <<>>,
     has_location |-> FALSE, location |-> <<>>, includes |-> <<>>,
     included_by |-> <<>>, listing_refs |-> <<>>, listing |-> <<>>]

\* utils.nodeCompoundXMLContents(node), parsed
XmlOf(refid) == IF refid \in DOMAIN xml THEN xml[refid] ELSE NoRecord

\* cdef.find_all(tag, recursive=False), as the refids they carry
RECURSIVE Tagged(_, _)
Tagged(inner, tag) ==
    IF inner = <<>> THEN <<>>
    ELSE IF inner[1].tag = tag THEN <<inner[1].refid>> \o Tagged(Tail(inner), tag)
    ELSE Tagged(Tail(inner), tag)

(***************************************************************************)
(* discoverAllNodes, part 2: the file documents (lines 988-1040)           *)
(***************************************************************************)
\* lines 1004-1016
RECURSIVE scanFileInnerClasses(_, _, _)
scanFileInnerClasses(G, f, refids) ==
    IF refids = <<>> THEN G
    ELSE LET refid == refids[1]
             node  == G.node_by_refid[refid]
             G1 == IF ~Known(G, refid)
                   THEN Report(G, Diagnostic("unknown_refid", 0, f, 0))
                   ELSE IF G.nodes[node].def_in_file = 0
                   THEN [G EXCEPT !.nodes[node].def_in_file = f]
                   ELSE IF G.nodes[node].def_in_file # f
                   THEN Report(G, Diagnostic("conflict", node, G.nodes[node].def_in_file, f))
                   ELSE G
         IN  scanFileInnerClasses(G1, f, Tail(refids))

\* lines 1024-1031
RECURSIVE scanFileMemberdefs(_, _, _)
scanFileMemberdefs(G, f, refids) ==
    IF refids = <<>> THEN G
    ELSE LET refid == refids[1]
             node  == G.node_by_refid[refid]
             G1 == IF Known(G, refid) /\ G.nodes[node].def_in_file = 0
                   THEN [G EXCEPT !.nodes[node].def_in_file = f]
                   ELSE G
         IN  scanFileMemberdefs(G1, f, Tail(refids))

\* lines 1034-1038
setFileLocation(G, f, rec) ==
    IF rec.has_location
    THEN [G EXCEPT !.nodes[f].loc_attr = "str", !.nodes[f].def_in_file_location = rec.location]
    ELSE [G EXCEPT !.nodes[f].loc_attr = "none", !.nodes[f].def_in_file_location = <<>>]

\* the loop of line 988; an unparseable document ends the loop (break)
RECURSIVE scanFileXml(_, _)
scanFileXml(G, fs) ==
    IF fs = <<>> THEN G
    ELSE LET f   == fs[1]
             rec == XmlOf(G.nodes[f].refid)
         IN  IF rec.status = "missing" THEN scanFileXml(G, Tail(fs))
             ELSE IF rec.status = "unparseable"
             THEN Report(G, Diagnostic("unparseable", f, 0, 0))
             ELSE LET G0 == [G EXCEPT !.nodes[f].has_soup = TRUE]
                      G1 == IF rec.status = "malformed"
                            THEN Report(G0, Diagnostic("exception", f, 0, 0))
                            ELSE setFileLocation(
                                   scanFileMemberdefs(
                                     scanFileInnerClasses(G0, f, Tagged(rec.inner, "innerclass")),
                                     f, rec.memberdef),
                                   f, rec)
                  IN  scanFileXml(G1, Tail(fs))

(***************************************************************************)
(* discoverAllNodes, part 3: the namespace documents (lines 1044-1087)     *)
(***************************************************************************)
\* lines 1053-1069: innerclass and innernamespace are handled alike
RECURSIVE adoptInner(_, _, _)
adoptInner(G, nspace, refids) ==
    IF refids = <<>> THEN G
    ELSE LET refid == refids[1]
             node  == G.node_by_refid[refid]
             G1 == IF Known(G, refid) /\ ~InList(node, G.nodes[nspace].children)
                   THEN [G EXCEPT !.nodes[nspace].children = Append(@, node),
                                  !.nodes[node].parent = nspace]
                   ELSE G
         IN  adoptInner(G1, nspace, Tail(refids))

\* lines 1082-1087: reading def_in_file_location of a file that never got
\* the attribute raises AttributeError
RECURSIVE assignByLocation(_, _, _, _)
assignByLocation(G, node, filedef, fs) ==
    IF fs = <<>> THEN G
    ELSE LET f == fs[1]
         IN  IF G.nodes[f].loc_attr = "unset" THEN Raise(G)
             ELSE IF G.nodes[f].loc_attr = "str" /\ G.nodes[f].def_in_file_location = filedef
             THEN LET G1 == [G EXCEPT !.nodes[node].def_in_file = f]
                  IN  IF InList(node, G1.nodes[f].children) THEN G1
                      ELSE [G1 EXCEPT !.nodes[f].children = Append(@, node)]
             ELSE assignByLocation(G, node, filedef, Tail(fs))

\* lines 1072-1087
RECURSIVE scanNamespaceMembers(_, _)
scanNamespaceMembers(G, members) ==
    IF members = <<>> \/ G.crashed THEN G
    ELSE LET m  == members[1]
             G1 == IF Known(G, m.id) /\ m.has_file
                   THEN assignByLocation(G, G.node_by_refid[m.id], m.file, G.files)
                   ELSE G
         IN  scanNamespaceMembers(G1, Tail(members))

\* the loop of line 1044; a document without compounddef raises
RECURSIVE scanNamespaceXml(_, _)
scanNamespaceXml(G, nss) ==
    IF nss = <<>> \/ G.crashed THEN G
    ELSE LET nspace == nss[1]
             rec    == XmlOf(G.nodes[nspace].refid)
         IN  IF rec.status = "missing" \/ rec.status = "unparseable"
             THEN scanNamespaceXml(G, Tail(nss))
             ELSE IF rec.status = "malformed" THEN Raise(G)
             ELSE LET G1 == adoptInner(G, nspace, Tagged(rec.inner, "innerclass"))
                      G2 == adoptInner(G1, nspace, Tagged(rec.inner, "innernamespace"))
                      G3 == scanNamespaceMembers(G2, rec.members)
                  IN  scanNamespaceXml(G3, Tail(nss))

(***************************************************************************)
(* discoverAllNodes, part 4: ambiguous ownership (lines 1091-1119)         *)
(***************************************************************************)
\* the keys of missing_file_def
MissingFileDef(G) ==
    {refid \in DOMAIN G.node_by_refid :
        LET node == G.nodes[G.node_by_refid[refid]]
        IN  /\ node.def_in_file = 0
            /\ node.kind \notin {"file", "dir", "group", "namespace"}}

\* f's programlisting has a <ref refid=... kindref="member">
ListingRefersTo(f_refid, refid) ==
    \E i \in 1..Len(XmlOf(f_refid).listing_refs) :
        /\ XmlOf(f_refid).listing_refs[i].refid = refid
        /\ XmlOf(f_refid).listing_refs[i].kindref = "member"

\* missing_file_def_candidates[refid] after the loop of line 1099
RECURSIVE Candidates(_, _, _)
Candidates(G, refid, fs) ==
    IF fs = <<>> THEN <<>>
    ELSE LET rest == Candidates(G, refid, DropLast(fs, 1))
             f    == fs[Len(fs)]
         IN  IF ListingRefersTo(G.nodes[f].refid, refid) /\ ~InList(f, rest)
             THEN Append(rest, f)
             ELSE rest

\* PickCandidate taking the first of several candidates
PickCandidate_first(candidates) == IF Len(candidates) >= 1 THEN candidates[1] ELSE 0

\* the candidate list that decides (line 1118)
PickCandidate(candidates) == IF Len(candidates) = 1 THEN candidates[1] ELSE 0

\* f.soup.doxygen.compounddef raises when f has no soup or no <doxygen>
SoupReadable(G, f) ==
    G.nodes[f].has_soup /\ XmlOf(G.nodes[f].refid).status = "ok"

resolveMissingFileDef(G) ==
    IF \E i \in 1..Len(G.files) : ~SoupReadable(G, G.files[i]) THEN Raise(G)
    ELSE LET missing == MissingFileDef(G)
             owner(node) ==
                 IF G.nodes[node].refid \in missing
                    /\ G.node_by_refid[G.nodes[node].refid] = node
                 THEN PickCandidate(Candidates(G, G.nodes[node].refid, G.files))
                 ELSE 0
         IN  [G EXCEPT !.nodes = [node \in 1..Len(G.nodes) |->
                  IF owner(node) # 0
                  THEN [G.nodes[node] EXCEPT !.def_in_file = owner(node)]
                  ELSE G.nodes[node]]]

(***************************************************************************)
(* reparentAll and its sub-passes                                          *)
(***************************************************************************)
\* the first node of lst whose name is one of names, 0 when the loop ends
\* without a match (for ... : if x.name == ...: ...; break)
FirstNamed(G, lst, names) ==
    IF \E i \in 1..Len(lst) : G.nodes[lst[i]].name \in names
    THEN lst[CHOOSE i \in 1..Len(lst) :
                /\ G.nodes[lst[i]].name \in names
                /\ \A j \in 1..(i - 1) : G.nodes[lst[j]].name \notin names]
    ELSE 0

\* Adopt that sets the parent and leaves the owner's children alone
Adopt_parent(G, owner, child) == [G EXCEPT !.nodes[child].parent = owner]

\* owner.children.append(child); child.parent = owner
Adopt(G, owner, child) ==
    [G EXCEPT !.nodes[owner].children = Append(@, child),
              !.nodes[child].parent = owner]

\* the class-like name a union of three or more segments is tested
\* against (line 1264)
PotentialClass(parts) == parts[Len(parts) - 1]

\* the namespace names such a union is tested against (lines 1263, 1281)
NamespaceNames(parts) ==
    LET namespace_name == Join(ScopeSep, DropLast(parts, 2))
    IN  {namespace_name, namespace_name \o ScopeSep \o PotentialClass(parts)}

\* reparentUnion with the namespace's union queued for removal too
reparentUnion_removeAll(G, u) ==
    LET parts     == Split(G.nodes[u].name, ScopeSep)
        num_parts == Len(parts)
        class_names == IF num_parts > 2 THEN {PotentialClass(parts)}
                       ELSE {Join(ScopeSep, DropLast(parts, 1))}
        nspace_names == IF num_parts > 2 THEN NamespaceNames(parts)
                        ELSE {Join(ScopeSep, DropLast(parts, 1))}
        cl == FirstNamed(G, G.class_like, class_names)
        n  == FirstNamed(G, G.namespaces, nspace_names)
    IN  IF num_parts <= 1 THEN [G |-> G, removed |-> FALSE]
        ELSE IF cl # 0 THEN [G |-> Adopt(G, cl, u), removed |-> TRUE]
        ELSE IF n # 0 THEN [G |-> Adopt(G, n, u), removed |-> TRUE]
        ELSE [G |-> G, removed |-> FALSE]

\* one iteration of the loop of line 1257: [G, removed]
reparentUnion(G, u) ==
    LET parts     == Split(G.nodes[u].name, ScopeSep)
        num_parts == Len(parts)
        class_names == IF num_parts > 2 THEN {PotentialClass(parts)}
                       ELSE {Join(ScopeSep, DropLast(parts, 1))}
        nspace_names == IF num_parts > 2 THEN NamespaceNames(parts)
                        ELSE {Join(ScopeSep, DropLast(parts, 1))}
        cl == FirstNamed(G, G.class_like, class_names)
        n  == FirstNamed(G, G.namespaces, nspace_names)
    IN  IF num_parts <= 1 THEN [G |-> G, removed |-> FALSE]
        ELSE IF cl # 0 THEN [G |-> Adopt(G, cl, u), removed |-> TRUE]
        ELSE IF n # 0 THEN [G |-> Adopt(G, n, u), removed |-> FALSE]
        ELSE [G |-> G, removed |-> FALSE]

RECURSIVE reparentUnionsLoop(_, _, _)
reparentUnionsLoop(G, us, removals) ==
    IF us = <<>> THEN [G EXCEPT !.unions = RemoveAll(@, removals)]
    ELSE LET r == reparentUnion(G, us[1])
         IN  reparentUnionsLoop(r.G, Tail(us),
                                IF r.removed THEN Append(removals, us[1]) ELSE removals)

reparentUnions(G) == reparentUnionsLoop(G, G.unions, <<>>)

\* reparentClassLikeLoop that leaves the nested Nodes in class_like
RECURSIVE reparentClassLikeLoop_keep(_, _, _)
reparentClassLikeLoop_keep(G, cls, removals) ==
    IF cls = <<>>
    THEN G
    ELSE LET cl        == cls[1]
             parts     == Split(G.nodes[cl].name, ScopeSep)
             parent_cl == FirstNamed(G, G.class_like, {Join(ScopeSep, DropLast(parts, 1))})
         IN  IF Len(parts) > 1 /\ parent_cl # 0
             THEN reparentClassLikeLoop_keep(Adopt(G, parent_cl, cl), Tail(cls), removals)
             ELSE reparentClassLikeLoop_keep(G, Tail(cls), removals)

\* lines 1348-1357
RECURSIVE reparentClassLikeLoop(_, _, _)
reparentClassLikeLoop(G, cls, removals) ==
    IF cls = <<>>
    THEN [G EXCEPT !.class_like = RemoveAll(@, removals)]
    ELSE LET cl        == cls[1]
             parts     == Split(G.nodes[cl].name, ScopeSep)
             parent_cl == FirstNamed(G, G.class_like, {Join(ScopeSep, DropLast(parts, 1))})
         IN  IF Len(parts) > 1 /\ parent_cl # 0
             THEN reparentClassLikeLoop(Adopt(G, parent_cl, cl), Tail(cls), Append(removals, cl))
             ELSE reparentClassLikeLoop(G, Tail(cls), removals)

reparentClassLike(G) == reparentClassLikeLoop(G, G.class_like, <<>>)

\* len(d.name.split("/"))
Rank(G, d) == Len(Split(G.nodes[d].name, PathSep))

\* (rank, d) < (p_rank, p_d) on tuples: the first unequal position decides
RankLt(G, d, e) ==
    IF Rank(G, d) # Rank(G, e) THEN Rank(G, d) < Rank(G, e)
    ELSE IF d # e THEN NodeLt(G.nodes[d], G.nodes[e])
    ELSE FALSE

\* sorted(dir_ranks), as the directories in that order
Traversal(G) ==
    PySort(G.dirs, [p \in Range(G.dirs) \X Range(G.dirs) |-> RankLt(G, p[1], p[2])])

\* the path a directory's parent must have (line 1388)
ParentPath(name) == Join(PathSep, DropLast(Split(name, PathSep), 1))

\* ParentDirectory searching the directory's own rank (p_rank == rank)
ParentDirectory_sameRank(G, rev, directory) ==
    LET fits(i) == /\ Rank(G, rev[i]) = Rank(G, directory)
                   /\ G.nodes[rev[i]].name = ParentPath(G.nodes[directory].name)
    IN  IF \E i \in 1..Len(rev) : fits(i)
        THEN rev[CHOOSE i \in 1..Len(rev) : fits(i) /\ \A j \in 1..(i - 1) : ~fits(j)]
        ELSE 0

\* lines 1386-1393: the first directory of the reversed traversal, one rank
\* up, whose name is the parent path; 0 when there is none
ParentDirectory(G, rev, directory) ==
    LET fits(i) == /\ Rank(G, rev[i]) = Rank(G, directory) - 1
                   /\ G.nodes[rev[i]].name = ParentPath(G.nodes[directory].name)
    IN  IF \E i \in 1..Len(rev) : fits(i)
        THEN rev[CHOOSE i \in 1..Len(rev) : fits(i) /\ \A j \in 1..(i - 1) : ~fits(j)]
        ELSE 0

\* the loop of line 1381 over reversed(traversal); rank < 2 ends it
RECURSIVE reparentDirectoriesLoop(_, _, _, _)
reparentDirectoriesLoop(G, rev, todo, removals) ==
    IF todo = <<>> \/ Rank(G, todo[1]) < 2
    THEN [G EXCEPT !.dirs = RemoveAll(@, removals)]
    ELSE LET directory   == todo[1]
             p_directory == ParentDirectory(G, rev, directory)
         IN  IF p_directory # 0
             THEN reparentDirectoriesLoop(Adopt(G, p_directory, directory), rev, Tail(todo),
                      IF InList(directory, removals) THEN removals
                      ELSE Append(removals, directory))
             ELSE reparentDirectoriesLoop(G, rev, Tail(todo), removals)

reparentDirectories(G) ==
    LET rev == Reverse(Traversal(G))
    IN  reparentDirectoriesLoop(G, rev, rev, <<>>)

\* lines 1412-1414 for one namespace; namespace_name was formatted before
RECURSIVE renameChildren(_, _, _)
renameChildren(G, namespace_name, children) ==
    IF children = <<>> THEN G
    ELSE LET child == children[1]
             G1 == IF ~Contains(namespace_name, G.nodes[child].name)
                   THEN [G EXCEPT !.nodes[child].name = namespace_name \o @]
                   ELSE G
         IN  renameChildren(G1, namespace_name, Tail(children))

RECURSIVE renameLoop(_, _)
renameLoop(G, nss) ==
    IF nss = <<>> THEN G
    ELSE renameLoop(renameChildren(G, G.nodes[nss[1]].name \o ScopeSep,
                                   G.nodes[nss[1]].children),
                    Tail(nss))

renameToNamespaceScopes(G) == renameLoop(G, G.namespaces)

\* nspace.parent and nspace.parent.kind == "namespace"
NestedNamespace(G, nspace) ==
    /\ G.nodes[nspace].parent # 0
    /\ G.nodes[G.nodes[nspace].parent].kind = "namespace"

reparentNamespaces(G) ==
    [G EXCEPT !.namespaces = SelectSeq(@, LAMBDA nspace : ~NestedNamespace(G, nspace))]

\* Deduplications without the pass: the children lists stay as they are
Deduplications_keep(G, todo) == {G}

\* node.children = list(set(node.children)) for every node of all_nodes:
\* the members once each, in the iteration order of a set of objects, which
\* follows their addresses: every order is possible
RECURSIVE Deduplications(_, _)
Deduplications(G, todo) ==
    IF todo = <<>> THEN {G}
    ELSE LET node == todo[1]
         IN  UNION {Deduplications([G EXCEPT !.nodes[node].children = order], Tail(todo)) :
                       order \in Perms(Range(G.nodes[node].children))}

\* reparentAll: the five sub-passes, then the de-duplication; the set of
\* graphs it can return
reparentAll(G) ==
    LET G5 == reparentNamespaces(renameToNamespaceScopes(reparentDirectories(
                  reparentClassLike(reparentUnions(G)))))
    IN  Deduplications(G5, G5.all_nodes)

\* parse, lines 920-921
indexByRefid(G) ==
    [G EXCEPT !.node_by_refid =
        [refid \in {G.nodes[G.all_nodes[i]].refid : i \in 1..Len(G.all_nodes)} |->
            G.all_nodes[CHOOSE i \in 1..Len(G.all_nodes) :
                /\ G.nodes[G.all_nodes[i]].refid = refid
                /\ \A j \in (i + 1)..Len(G.all_nodes) : G.nodes[G.all_nodes[j]].refid # refid]]]

(***************************************************************************)
(* fileRefDiscovery                                                        *)
(***************************************************************************)
\* lines 1503-1544 for one file: the line-by-line read of <refid>.xml
readFileXml(G, f) ==
    LET rec == XmlOf(G.nodes[f].refid)
    IN  IF rec.status = "missing"
        THEN Report(G, Diagnostic("unreadable", f, 0, 0))
        ELSE [G EXCEPT !.nodes[f].location = IF rec.has_location THEN rec.location ELSE @,
                       !.nodes[f].included_by = @ \o rec.included_by,
                       !.nodes[f].includes = @ \o rec.includes,
                       !.nodes[f].program_listing = @ \o rec.listing]

\* doxygen_xml_file_ownerships[f]: the refids of the <inner...> lines that
\* are known
RECURSIVE KnownRefids(_, _)
KnownRefids(G, inner) ==
    IF inner = <<>> THEN <<>>
    ELSE IF Known(G, inner[1].refid) THEN <<inner[1].refid>> \o KnownRefids(G, Tail(inner))
    ELSE KnownRefids(G, Tail(inner))

Ownerships(G, f) == KnownRefids(G, XmlOf(G.nodes[f].refid).inner)

\* some node of lst has this name
NameIn(G, name, lst) == \E i \in 1..Len(lst) : G.nodes[lst[i]].name = name

\* MayAttachToFile without the special treatment of unions
MayAttachToFile_always(G, child) == TRUE

\* lines 1583-1589: the union test looks the name up in self.unions
MayAttachToFile(G, child) ==
    G.nodes[child].kind = "union" => NameIn(G, G.nodes[child].name, G.unions)

\* lines 1572-1597 for one refid of the ownership list
attachReference(G, f, match_refid) ==
    LET child == G.node_by_refid[match_refid]
        kind  == G.nodes[child].kind
    IN  IF kind \in {"struct", "class", "function", "typedef", "define", "enum", "union"}
        THEN IF ~NameIn(G, G.nodes[child].name, G.nodes[f].children) /\ MayAttachToFile(G, child)
             THEN [G EXCEPT !.nodes[f].children = Append(@, child)]
             ELSE G
        ELSE IF kind = "namespace" /\ ~NameIn(G, G.nodes[child].name, G.nodes[f].namespaces_used)
        THEN [G EXCEPT !.nodes[f].namespaces_used = Append(@, child)]
        ELSE G

RECURSIVE attachReferences(_, _, _)
attachReferences(G, f, refids) ==
    IF refids = <<>> THEN G
    ELSE attachReferences(attachReference(G, f, refids[1]), f, Tail(refids))

\* lines 1603-1608: the children of the namespaces used, of the orphan kinds
RECURSIVE OfOrphanKind(_, _)
OfOrphanKind(G, children) ==
    IF children = <<>> THEN <<>>
    ELSE IF G.nodes[children[1]].kind \in {"enum", "variable", "function", "typedef", "union"}
         THEN <<children[1]>> \o OfOrphanKind(G, Tail(children))
         ELSE OfOrphanKind(G, Tail(children))

RECURSIVE PotentialOrphans(_, _)
PotentialOrphans(G, used) ==
    IF used = <<>> THEN <<>>
    ELSE OfOrphanKind(G, G.nodes[used[1]].children) \o PotentialOrphans(G, Tail(used))

\* line 1614
OrphanOf(G, f, orphan) ==
    LET parts == Split(G.nodes[orphan].name, ScopeSep)
        unresolved_name == parts[Len(parts)]
    IN  /\ Contains(G.nodes[f].refid, G.nodes[orphan].refid)
        /\ \E i \in 1..Len(G.nodes[f].program_listing) :
               Contains(unresolved_name, G.nodes[f].program_listing[i])

RECURSIVE recoverOrphans(_, _, _)
recoverOrphans(G, f, orphans) ==
    IF orphans = <<>> THEN G
    ELSE LET orphan == orphans[1]
             G1 == IF OrphanOf(G, f, orphan) /\ ~InList(orphan, G.nodes[f].children)
                   THEN [G EXCEPT !.nodes[f].children = Append(@, orphan)]
                   ELSE G
         IN  recoverOrphans(G1, f, Tail(orphans))

\* lines 1620-1629 for one child of f
claimChild(G, f, child) ==
    IF G.nodes[child].def_in_file = 0
    THEN [G EXCEPT !.nodes[child].def_in_file = f]
    ELSE IF G.nodes[child].def_in_file # f
    THEN Report(G, Diagnostic("conflict", child, G.nodes[child].def_in_file, f))
    ELSE G

RECURSIVE claimChildren(_, _, _)
claimChildren(G, f, children) ==
    IF children = <<>> THEN G
    ELSE claimChildren(claimChild(G, f, children[1]), f, Tail(children))

\* one of the four loops over self.files
RECURSIVE readAll(_, _)
readAll(G, fs) == IF fs = <<>> THEN G ELSE readAll(readFileXml(G, fs[1]), Tail(fs))

RECURSIVE attachAll(_, _)
attachAll(G, fs) ==
    IF fs = <<>> THEN G
    ELSE attachAll(attachReferences(G, fs[1], Ownerships(G, fs[1])), Tail(fs))

RECURSIVE recoverAll(_, _)
recoverAll(G, fs) ==
    IF fs = <<>> THEN G
    ELSE recoverAll(recoverOrphans(G, fs[1], PotentialOrphans(G, G.nodes[fs[1]].namespaces_used)),
                    Tail(fs))

RECURSIVE claimAll(_, _)
claimAll(G, fs) ==
    IF fs = <<>> THEN G
    ELSE claimAll(claimChildren(G, fs[1], G.nodes[fs[1]].children), Tail(fs))

\* configs.doxygenStripFromPath is None: lines 1551-1566 do nothing
fileRefDiscovery(G) ==
    claimAll(recoverAll(attachAll(readAll(G, G.files), G.files), G.files), G.files)

(***************************************************************************)
(* filePostProcess                                                         *)
(***************************************************************************)
RECURSIVE DirChildren(_, _)
DirChildren(G, children) ==
    IF children = <<>> THEN <<>>
    ELSE IF G.nodes[children[1]].kind = "dir"
         THEN <<children[1]>> \o DirChildren(G, Tail(children))
         ELSE DirChildren(G, Tail(children))

\* the while loop of line 1648: the directory f is attached to, 0 if the
\* work list runs empty
RECURSIVE SearchDirectory(_, _, _)
SearchDirectory(G, dir_path, nodes_remaining) ==
    IF nodes_remaining = <<>> THEN 0
    ELSE LET d == nodes_remaining[Len(nodes_remaining)]
         IN  IF Contains(G.nodes[d].name, dir_path)
             THEN IF G.nodes[d].name = dir_path THEN d
                  ELSE SearchDirectory(G, dir_path, DirChildren(G, G.nodes[d].children))
             ELSE SearchDirectory(G, dir_path, DropLast(nodes_remaining, 1))

\* "/".join(f.location.split("/")[:-1])
DirPath(location) == Join(PathSep, DropLast(Split(location, PathSep), 1))

RECURSIVE filePostProcessLoop(_, _)
filePostProcessLoop(G, fs) ==
    IF fs = <<>> THEN G
    ELSE LET f == fs[1]
             dir_loc_parts == DropLast(Split(G.nodes[f].location, PathSep), 1)
             d  == SearchDirectory(G, DirPath(G.nodes[f].location), G.dirs)
             G1 == IF Len(dir_loc_parts) # 0 /\ d # 0 THEN Adopt(G, d, f) ELSE G
         IN  filePostProcessLoop(G1, Tail(fs))

filePostProcess(G) == filePostProcessLoop(G, G.files)

(***************************************************************************)
(* sortInternals                                                           *)
(***************************************************************************)
\* ExhaleNode.typeSort; a chain of calls longer than the number of nodes
\* walks a cycle of children and ends in RecursionError
RECURSIVE typeSort(_, _, _)
RECURSIVE typeSortEach(_, _, _)
typeSort(G, node, depth) ==
    IF G.crashed THEN G
    ELSE IF depth > Len(G.nodes) THEN Raise(G)
    ELSE LET G1 == [G EXCEPT !.nodes[node].children = SortNodes(G.nodes, @)]
         IN  typeSortEach(G1, G1.nodes[node].children, depth + 1)

typeSortEach(G, children, depth) ==
    IF children = <<>> \/ G.crashed THEN G
    ELSE typeSortEach(typeSort(G, children[1], depth), Tail(children), depth)

\* deepSortList on the collection named field: lst.sort(), then typeSort
\* of each member
deepSortList(G, field) ==
    IF G.crashed THEN G
    ELSE LET G1 == [G EXCEPT ![field] = SortNodes(G.nodes, @)]
         IN  typeSortEach(G1, G1[field], 1)

sortInternals(G) ==
    LET flat == [G EXCEPT !.defines     = SortNodes(G.nodes, @),
                          !.enums       = SortNodes(G.nodes, @),
                          !.enum_values = SortNodes(G.nodes, @),
                          !.functions   = SortNodes(G.nodes, @),
                          !.groups      = SortNodes(G.nodes, @),
                          !.typedefs    = SortNodes(G.nodes, @),
                          !.variables   = SortNodes(G.nodes, @)]
    IN  deepSortList(deepSortList(deepSortList(deepSortList(deepSortList(flat,
            "class_like"), "namespaces"), "unions"), "files"), "dirs")

(***************************************************************************)
(* Input records.  The index is a sequence of distinct compounds drawn     *)
(* from one of ten corpora;   the detail records are one of the corpus'    *)
(* variants.                                                               *)
(***************************************************************************)
Compound(name, kind, refid, members) ==
    [name |-> name, kind |-> kind, refid |-> refid, members |-> members]

Member(name, kind, refid) == [name |-> name, kind |-> kind, refid |-> refid]

Inner(tag, refid) == [tag |-> tag, refid |-> refid]

Ref(refid, kindref) == [refid |-> refid, kindref |-> kindref]

OkRecord == [NoRecord EXCEPT !.status = "ok"]

FileRecord(location, inner, listing_refs, listing) ==
    [OkRecord EXCEPT !.has_location = TRUE, !.location = location, !.inner = inner,
                     !.listing_refs = listing_refs, !.listing = listing]

NamespaceRecord(inner, members) == [OkRecord EXCEPT !.inner = inner, !.members = members]

\* ---- corpus 1: namespaces A and A::B, classes A::B and B, union A::B::U
Name_A   == <<"A">>
Name_AB  == <<"A", ":", ":", "B">>
Name_B   == <<"B">>
Name_ABU == <<"A", ":", ":", "B", ":", ":", "U">>
Name_AV  == <<"A", ":", ":", "V">>

Refid_nA  == <<"n", "A">>
Refid_nAB == <<"n", "A", "_", "B">>
Refid_cAB == <<"c", "A", "_", "B">>
Refid_cB  == <<"c", "B">>
Refid_uU  == <<"u", "A", "_", "B", "_", "U">>
Refid_uV  == <<"u", "A", "_", "V">>

ScopePool ==
    { Compound(Name_A,   "namespace", Refid_nA,  <<Member(Name_AV, "union", Refid_uV)>>),
      Compound(Name_AB,  "namespace", Refid_nAB, <<>>),
      Compound(Name_AB,  "class",     Refid_cAB, <<>>),
      Compound(Name_B,   "struct",    Refid_cB,  <<>>),
      Compound(Name_ABU, "union",     Refid_uU,  <<>>) }

\* A's record names A::B as inner namespace; in the second variant A::B's
\* record names A as well
ScopeXml ==
    { (Refid_nA  :> NamespaceRecord(<<Inner("innernamespace", Refid_nAB)>>, <<>>)) @@
      (Refid_nAB :> NamespaceRecord(<<>>, <<>>)),
      (Refid_nA  :> NamespaceRecord(<<Inner("innernamespace", Refid_nAB)>>, <<>>)) @@
      (Refid_nAB :> NamespaceRecord(<<Inner("innernamespace", Refid_nA)>>, <<>>)) }

\* ---- corpus 2: directories inc, inc/sub, inc/sub/deep and sub, and two files
Name_inc  == <<"i", "n", "c">>
Name_sub  == <<"i", "n", "c", "/", "s", "u", "b">>
Name_deep == <<"i", "n", "c", "/", "s", "u", "b", "/", "d", "e", "e", "p">>
Name_ah   == <<"a", ".", "h">>
Name_bh   == <<"b", ".", "h">>
Loc_ah    == <<"i", "n", "c", "/", "s", "u", "b", "/", "a", ".", "h">>
Loc_bh    == <<"b", ".", "h">>

Name_leaf == <<"s", "u", "b">>
Refid_leaf == <<"d", "3">>
Refid_inc  == <<"d", "1">>
Refid_sub  == <<"d", "2">>
Refid_deep == <<"d", "1", "2">>
Refid_ah   == <<"a", "_", "h">>
Refid_bh   == <<"b", "_", "h">>

DirPool ==
    { Compound(Name_inc,  "dir",  Refid_inc,  <<>>),
      Compound(Name_sub,  "dir",  Refid_sub,  <<>>),
      Compound(Name_deep, "dir",  Refid_deep, <<>>),
      Compound(Name_leaf, "dir",  Refid_leaf, <<>>),
      Compound(Name_ah,   "file", Refid_ah,   <<>>),
      Compound(Name_bh,   "file", Refid_bh,   <<>>) }

DirXml ==
    { (Refid_ah :> FileRecord(Loc_ah, <<>>, <<>>, <<>>)) @@
      (Refid_bh :> FileRecord(Loc_bh, <<>>, <<>>, <<>>)) }

\* ---- corpus 3: files f.h and g.h, namespace N, class K; function N::run
\* is a member of f.h and of N, variable N::v of N only
Name_fh  == <<"f", ".", "h">>
Name_gh  == <<"g", ".", "h">>
Name_N   == <<"N">>
Name_K   == <<"K">>
Name_run == <<"r", "u", "n">>
Name_v   == <<"v">>

Refid_fh  == <<"f", "_", "h">>
Refid_gh  == <<"g", "_", "h">>
Refid_N   == <<"n", "N">>
Refid_K   == <<"c", "K">>
Refid_run == <<"f", "_", "h", "_", "r">>
Refid_v   == <<"n", "N", "_", "v">>

FilePool ==
    { Compound(Name_fh, "file",      Refid_fh, <<Member(Name_run, "function", Refid_run)>>),
      Compound(Name_gh, "file",      Refid_gh, <<>>),
      Compound(Name_N,  "namespace", Refid_N,  <<Member(Name_run, "function", Refid_run),
                                                 Member(Name_v, "variable", Refid_v)>>),
      Compound(Name_K,  "class",     Refid_K,  <<>>) }

Listing_run == <<<<"r", "u", "n">>>>

\* N's record: run is located in g.h (the index lists it under f.h)
Record_N == NamespaceRecord(<<Inner("innerclass", Refid_K)>>,
                            <<[id |-> Refid_run, has_file |-> TRUE, file |-> Name_gh]>>)

\* both files name K as inner class and N as inner namespace
FileInner == <<Inner("innerclass", Refid_K), Inner("innernamespace", Refid_N)>>

FileXml ==
    { \* v and run are referenced from f.h only
      (Refid_fh :> FileRecord(Name_fh, FileInner,
                              <<Ref(Refid_v, "member"), Ref(Refid_run, "member")>>,
                              Listing_run)) @@
      (Refid_gh :> FileRecord(Name_gh, FileInner, <<Ref(Refid_v, "compound")>>, <<>>)) @@
      (Refid_N  :> Record_N),
      \* v is referenced from both files
      (Refid_fh :> FileRecord(Name_fh, FileInner, <<Ref(Refid_v, "member")>>, Listing_run)) @@
      (Refid_gh :> FileRecord(Name_gh, <<>>, <<Ref(Refid_v, "member")>>, <<>>)) @@
      (Refid_N  :> Record_N),
      \* v is referenced from no file; N has no record
      (Refid_fh :> FileRecord(Name_fh, <<>>, <<>>, <<>>)) @@
      (Refid_gh :> FileRecord(Name_gh, FileInner, <<>>, <<>>)),
      \* g.h has no record
      (Refid_fh :> FileRecord(Name_fh, FileInner, <<Ref(Refid_v, "member")>>, Listing_run)) @@
      (Refid_N  :> Record_N),
      \* g.h's record is not XML
      (Refid_fh :> FileRecord(Name_fh, FileInner, <<Ref(Refid_v, "member")>>, Listing_run)) @@
      (Refid_gh :> [FileRecord(Name_gh, <<>>, <<>>, <<>>) EXCEPT !.status = "unparseable"]) @@
      (Refid_N  :> Record_N),
      \* g.h's record is XML without a <doxygen> element
      (Refid_fh :> FileRecord(Name_fh, FileInner, <<Ref(Refid_v, "member")>>, Listing_run)) @@
      (Refid_gh :> [FileRecord(Name_gh, <<>>, <<>>, <<>>) EXCEPT !.status = "malformed"]) @@
      (Refid_N  :> Record_N) }

\* ---- corpus 4: namespace E and file e.h, each with an enumvalue member
Name_E    == <<"E">>
Name_eh   == <<"e", ".", "h">>
Name_red  == <<"r", "e", "d">>
Name_blue == <<"b", "l", "u", "e">>

Refid_E    == <<"n", "E">>
Refid_eh   == <<"e", "_", "h">>
Refid_red  == <<"n", "E", "_", "r", "e", "d">>
Refid_blue == <<"e", "_", "h", "_", "b", "l", "u", "e">>

EnumPool ==
    { Compound(Name_E,  "namespace", Refid_E,  <<Member(Name_red, "enumvalue", Refid_red)>>),
      Compound(Name_eh, "file",      Refid_eh, <<Member(Name_blue, "enumvalue", Refid_blue)>>) }

EnumXml ==
    { (Refid_eh :> FileRecord(Name_eh, <<>>, <<>>, <<>>)) @@
      (Refid_E  :> NamespaceRecord(<<>>, <<>>)) }

\* ---- corpus 5: the class chain A, A::B, A::B::C, without detail records
Name_ABC  == <<"A", ":", ":", "B", ":", ":", "C">>
Refid_cA  == <<"c", "A">>
Refid_sAB == <<"s", "A", "_", "B">>
Refid_cABC == <<"c", "A", "_", "B", "_", "C">>

ClassPool ==
    { Compound(Name_A,   "class",  Refid_cA,   <<>>),
      Compound(Name_AB,  "struct", Refid_sAB,  <<>>),
      Compound(Name_ABC, "class",  Refid_cABC, <<>>) }

ClassXml == { << >> }

\* ---- corpus 6: class K with union K::U, the free union W, and the file u.h
\* whose record refers to all three
Name_KU  == <<"K", ":", ":", "U">>
Name_W   == <<"W">>
Name_uh  == <<"u", ".", "h">>
Refid_KU == <<"u", "K", "_", "U">>
Refid_W  == <<"u", "W">>
Refid_uh == <<"u", "_", "h">>

UnionPool ==
    { Compound(Name_K,  "class", Refid_K,  <<>>),
      Compound(Name_KU, "union", Refid_KU, <<>>),
      Compound(Name_W,  "union", Refid_W,  <<>>),
      Compound(Name_uh, "file",  Refid_uh, <<>>) }

UnionXml ==
    { Refid_uh :> FileRecord(Name_uh,
                             <<Inner("innerclass", Refid_KU), Inner("innerclass", Refid_W),
                               Inner("innerclass", Refid_K)>>,
                             <<>>, <<>>) }

\* ---- corpus 7: namespace B with the members y and A::B::x
Name_y    == <<"y">>
Name_ABx  == <<"A", ":", ":", "B", ":", ":", "x">>
Refid_nB  == <<"n", "B">>
Refid_y   == <<"n", "B", "_", "y">>
Refid_ABx == <<"n", "B", "_", "x">>

RenamePool ==
    { Compound(Name_B, "namespace", Refid_nB,
               <<Member(Name_y, "variable", Refid_y), Member(Name_ABx, "variable", Refid_ABx)>>) }

RenameXml == { << >> }

\* ---- corpus 8: the file s.h with the function go, and the struct S its
\* record names as inner class
Name_S   == <<"S">>
Name_sh  == <<"s", ".", "h">>
Name_go  == <<"g", "o">>
Refid_S  == <<"s", "S">>
Refid_sh == <<"s", "_", "h">>
Refid_go == <<"s", "_", "h", "_", "g">>

SortPool ==
    { Compound(Name_sh, "file",   Refid_sh, <<Member(Name_go, "function", Refid_go)>>),
      Compound(Name_S,  "struct", Refid_S,  <<>>) }

SortXml ==
    { Refid_sh :> FileRecord(Name_sh, <<Inner("innerclass", Refid_S)>>, <<>>, <<>>) }

\* ---- corpus 9: namespace M whose record names the class M::K and the
\* class M::K::J nested in it as inner classes
Name_M     == <<"M">>
Name_MK    == <<"M", ":", ":", "K">>
Name_MKJ   == <<"M", ":", ":", "K", ":", ":", "J">>
Refid_nM   == <<"n", "M">>
Refid_cMK  == <<"c", "M", "_", "K">>
Refid_cMKJ == <<"c", "M", "_", "K", "_", "J">>

NestPool ==
    { Compound(Name_M,   "namespace", Refid_nM,   <<>>),
      Compound(Name_MK,  "class",     Refid_cMK,  <<>>),
      Compound(Name_MKJ, "class",     Refid_cMKJ, <<>>) }

NestXml ==
    { Refid_nM :> NamespaceRecord(<<Inner("innerclass", Refid_cMK),
                                    Inner("innerclass", Refid_cMKJ)>>, <<>>) }

\* ---- corpus 10: namespaces P, P::Q and P::Q::R; the record of P names
\* P::Q as inner namespace, P::Q names P::Q::R, and P::Q::R names P::Q
Name_P     == <<"P">>
Name_PQ    == <<"P", ":", ":", "Q">>
Name_PQR   == <<"P", ":", ":", "Q", ":", ":", "R">>
Refid_nP   == <<"n", "P">>
Refid_nPQ  == <<"n", "P", "_", "Q">>
Refid_nPQR == <<"n", "P", "_", "Q", "_", "R">>

CyclePool ==
    { Compound(Name_P,   "namespace", Refid_nP,   <<>>),
      Compound(Name_PQ,  "namespace", Refid_nPQ,  <<>>),
      Compound(Name_PQR, "namespace", Refid_nPQR, <<>>) }

CycleXml ==
    { (Refid_nP   :> NamespaceRecord(<<Inner("innernamespace", Refid_nPQ)>>, <<>>)) @@
      (Refid_nPQ  :> NamespaceRecord(<<Inner("innernamespace", Refid_nPQR)>>, <<>>)) @@
      (Refid_nPQR :> NamespaceRecord(<<Inner("innernamespace", Refid_nPQ)>>, <<>>)) }

Corpora ==
    { [pool |-> ClassPool, xmls |-> ClassXml],
      [pool |-> CyclePool, xmls |-> CycleXml],
      [pool |-> NestPool, xmls |-> NestXml],
      [pool |-> SortPool, xmls |-> SortXml],
      [pool |-> RenamePool, xmls |-> RenameXml],
      [pool |-> UnionPool, xmls |-> UnionXml],
      [pool |-> ScopePool, xmls |-> ScopeXml],
      [pool |-> DirPool,   xmls |-> DirXml],
      [pool |-> FilePool,  xmls |-> FileXml],
      [pool |-> EnumPool,  xmls |-> EnumXml] }

\* the sequences of k distinct members of S
RECURSIVE Arrangements(_, _)
Arrangements(S, k) ==
    IF k = 0 THEN {<<>>}
    ELSE UNION {{<<x>> \o rest : rest \in Arrangements(S \ {x}, k - 1)} : x \in S}

Indexes(pool) == UNION {Arrangements(pool, k) : k \in 1..MaxCompounds}

(***************************************************************************)
(* State                                                                   *)
(***************************************************************************)
VARIABLES pc, nodes, all_nodes, node_by_refid, class_like, defines, enums,
          enum_values, functions, dirs, files, groups, namespaces, typedefs,
          unions, variables, diag, crashed, verdict

graph == <<nodes, all_nodes, node_by_refid, class_like, defines, enums,
           enum_values, functions, dirs, files, groups, namespaces, typedefs,
           unions, variables, diag, crashed>>

\* verdict[<<a, b>>] is the outcome of a < b for the Nodes compared so far
vars == <<index, xml, pc, graph, verdict>>

\* the ExhaleRoot as one value
Root ==
    [nodes |-> nodes, all_nodes |-> all_nodes, node_by_refid |-> node_by_refid,
     class_like |-> class_like, defines |-> defines, enums |-> enums,
     enum_values |-> enum_values, functions |-> functions, dirs |-> dirs,
     files |-> files, groups |-> groups, namespaces |-> namespaces,
     typedefs |-> typedefs, unions |-> unions, variables |-> variables,
     diag |-> diag, crashed |-> crashed]

Becomes(G) ==
    /\ nodes' = G.nodes
    /\ all_nodes' = G.all_nodes
    /\ node_by_refid' = G.node_by_refid
    /\ class_like' = G.class_like
    /\ defines' = G.defines
    /\ enums' = G.enums
    /\ enum_values' = G.enum_values
    /\ functions' = G.functions
    /\ dirs' = G.dirs
    /\ files' = G.files
    /\ groups' = G.groups
    /\ namespaces' = G.namespaces
    /\ typedefs' = G.typedefs
    /\ unions' = G.unions
    /\ variables' = G.variables
    /\ diag' = G.diag
    /\ crashed' = G.crashed

Init ==
    /\ \E corpus \in Corpora :
          /\ index \in Indexes(corpus.pool)
          /\ xml \in corpus.xmls
    /\ pc = "discoverAllNodes"
    /\ nodes = <<>>
    /\ all_nodes = <<>>
    /\ node_by_refid = [r \in {} |-> 0]
    /\ class_like = <<>>
    /\ defines = <<>>
    /\ enums = <<>>
    /\ enum_values = <<>>
    /\ functions = <<>>
    /\ dirs = <<>>
    /\ files = <<>>
    /\ groups = <<>>
    /\ namespaces = <<>>
    /\ typedefs = <<>>
    /\ unions = <<>>
    /\ variables = <<>>
    /\ diag = {}
    /\ crashed = FALSE
    /\ verdict = << >>

(***************************************************************************)
(* parse(): the stages in the order of lines 915-928.  A stage that raises *)
(* ends the run in "failed".                                               *)
(***************************************************************************)
\* Stage that goes from union reparenting straight to directory reparenting
Stage_skip(here, next, G) ==
    /\ pc = here
    /\ Becomes(G)
    /\ pc' = IF G.crashed THEN "failed"
             ELSE IF next = "reparentClassLike" THEN "reparentDirectories"
             ELSE next
    /\ UNCHANGED <<index, xml, verdict>>

Stage(here, next, G) ==
    /\ pc = here
    /\ Becomes(G)
    /\ pc' = IF G.crashed THEN "failed" ELSE next
    /\ UNCHANGED <<index, xml, verdict>>

\* discoverAllNodes, lines 955-981
DiscoverCompounds ==
    /\ pc = "discoverAllNodes"
    /\ Stage("discoverAllNodes", "scanFileXml", discoverCompounds(Root, index))

\* discoverAllNodes, lines 988-1040
ScanFileXml ==
    /\ pc = "scanFileXml"
    /\ Stage("scanFileXml", "scanNamespaceXml", scanFileXml(Root, files))

\* discoverAllNodes, lines 1044-1087
ScanNamespaceXml ==
    /\ pc = "scanNamespaceXml"
    /\ Stage("scanNamespaceXml", "resolveMissingFileDef", scanNamespaceXml(Root, namespaces))

\* discoverAllNodes, lines 1091-1119
ResolveMissingFileDef ==
    /\ pc = "resolveMissingFileDef"
    /\ Stage("resolveMissingFileDef", "reparentUnions", resolveMissingFileDef(Root))

ReparentUnions ==
    /\ pc = "reparentUnions"
    /\ Stage("reparentUnions", "reparentClassLike", reparentUnions(Root))

ReparentClassLike ==
    /\ pc = "reparentClassLike"
    /\ Stage("reparentClassLike", "reparentDirectories", reparentClassLike(Root))

ReparentDirectories ==
    /\ pc = "reparentDirectories"
    /\ Stage("reparentDirectories", "renameToNamespaceScopes", reparentDirectories(Root))

RenameToNamespaceScopes ==
    /\ pc = "renameToNamespaceScopes"
    /\ Stage("renameToNamespaceScopes", "reparentNamespaces", renameToNamespaceScopes(Root))

ReparentNamespaces ==
    /\ pc = "reparentNamespaces"
    /\ Stage("reparentNamespaces", "deduplicate", reparentNamespaces(Root))

\* reparentAll, lines 1241-1242
Deduplicate ==
    \E G \in Deduplications(Root, all_nodes) : Stage("deduplicate", "indexByRefid", G)

\* parse, lines 920-921
IndexByRefid ==
    /\ pc = "indexByRefid"
    /\ Stage("indexByRefid", "fileRefDiscovery", indexByRefid(Root))

FileRefDiscovery ==
    /\ pc = "fileRefDiscovery"
    /\ Stage("fileRefDiscovery", "filePostProcess", fileRefDiscovery(Root))

FilePostProcess ==
    /\ pc = "filePostProcess"
    /\ Stage("filePostProcess", "sortInternals", filePostProcess(Root))

SortInternals ==
    /\ pc = "sortInternals"
    /\ Stage("sortInternals", "done", sortInternals(Root))

Next ==
    \/ DiscoverCompounds
    \/ ScanFileXml
    \/ ScanNamespaceXml
    \/ ResolveMissingFileDef
    \/ ReparentUnions
    \/ ReparentClassLike
    \/ ReparentDirectories
    \/ RenameToNamespaceScopes
    \/ ReparentNamespaces
    \/ Deduplicate
    \/ IndexByRefid
    \/ FileRefDiscovery
    \/ FilePostProcess
    \/ SortInternals

Spec == Init /\ [][Next]_vars

(***************************************************************************)
(* ExhaleNode.__lt__ and list.sort() on their own.  The operands are the   *)
(* members of one namespace compound: Nodes of every kind under names that *)
(* are equal, or differ, when lowered.  The graph starts as Discovery      *)
(* leaves it for that compound; Compare evaluates a < b for every pair of  *)
(* its Nodes, SortChildren runs sortInternals on the namespace's children  *)
(* in any order the index can list them.                                   *)
(***************************************************************************)
MaxOperands == 3

Name_Abc == <<"A", "b", "c">>
Name_Zed == <<"Z", "e", "d">>
Name_zed == <<"z", "e", "d">>

KindSeq == <<"class", "define", "dir", "enum", "enumvalue", "file", "function",
             "group", "namespace", "struct", "typedef", "union", "variable">>

NameSeq == <<Name_Abc, Name_Zed, Name_zed>>

\* the i-th operand: a member record of kind KindSeq[..] named NameSeq[..]
Operand(i) ==
    LET kind == KindSeq[((i - 1) \div Len(NameSeq)) + 1]
        name == NameSeq[((i - 1) % Len(NameSeq)) + 1]
    IN  Member(name, kind, KindText(kind) \o <<"_">> \o name)

OperandIds == 1..(Len(KindSeq) * Len(NameSeq))

\* the members of S, lowest first
RECURSIVE Ascending(_)
Ascending(S) ==
    IF S = {} THEN <<>>
    ELSE LET least == CHOOSE x \in S : \A y \in S : x <= y
         IN  <<Operand(least)>> \o Ascending(S \ {least})

\* the sets of k operands out of S
RECURSIVE OperandSets(_, _)
OperandSets(S, k) ==
    IF k = 0 THEN {{}}
    ELSE UNION {{T \cup {x} : T \in OperandSets({y \in S : y < x}, k - 1)} : x \in S}

\* the namespace that holds the operands
Holder == all_nodes[1]

OrderInit ==
    /\ \E k \in 1..MaxOperands : \E S \in OperandSets(OperandIds, k) :
          /\ index = <<Compound(Name_N, "namespace", Refid_N, Ascending(S))>>
          /\ LET G == discoverCompounds(EmptyRoot, index)
             IN  /\ nodes = G.nodes
                 /\ all_nodes = G.all_nodes
                 /\ node_by_refid = G.node_by_refid
                 /\ class_like = G.class_like
                 /\ defines = G.defines
                 /\ enums = G.enums
                 /\ enum_values = G.enum_values
                 /\ functions = G.functions
                 /\ dirs = G.dirs
                 /\ files = G.files
                 /\ groups = G.groups
                 /\ namespaces = G.namespaces
                 /\ typedefs = G.typedefs
                 /\ unions = G.unions
                 /\ variables = G.variables
                 /\ diag = G.diag
                 /\ crashed = G.crashed
    /\ xml = << >>
    /\ pc = "compare"
    /\ verdict = << >>

\* a < b (lines 194-222) for every two registered Nodes
Compare ==
    /\ pc = "compare"
    /\ verdict' = LtTable(nodes, all_nodes)
    /\ pc' = "sort"
    /\ UNCHANGED <<index, xml, graph>>

\* sortInternals (lines 1663-1686) with the holder's children in any order
SortChildren ==
    /\ pc = "sort"
    /\ \E order \in Perms(Range(nodes[Holder].children)) :
          Becomes(sortInternals([Root EXCEPT !.nodes[Holder].children = order]))
    /\ pc' = "sorted"
    /\ UNCHANGED <<index, xml, verdict>>

OrderNext ==
    \/ Compare
    \/ SortChildren

OrderSpec == OrderInit /\ [][OrderNext]_vars

(***************************************************************************)
(* Properties                                                              *)
(***************************************************************************)
NodeIds == 1..Len(nodes)

Registered == Range(all_nodes)

\* the stages that follow a given point of parse()
AfterReparentUnions ==
    {"reparentClassLike", "reparentDirectories", "renameToNamespaceScopes",
     "reparentNamespaces", "deduplicate", "indexByRefid", "fileRefDiscovery",
     "filePostProcess", "sortInternals", "done"}

AfterReparentDirectories ==
    {"renameToNamespaceScopes", "reparentNamespaces", "deduplicate", "indexByRefid",
     "fileRefDiscovery", "filePostProcess", "sortInternals", "done"}

AfterReparentAll ==
    {"indexByRefid", "fileRefDiscovery", "filePostProcess", "sortInternals", "done"}

ClassLike(n) == nodes[n].kind = "class" \/ nodes[n].kind = "struct"

\* the nodes reachable from roots by following children
RECURSIVE Reachable(_)
Reachable(S) ==
    LET more == S \cup UNION {Range(nodes[n].children) : n \in S}
    IN  IF more = S THEN S ELSE Reachable(more)

\* lst lists no node twice
NoDuplicates(lst) == \A i, j \in 1..Len(lst) : lst[i] = lst[j] => i = j

\* C1: no two distinct registered Nodes share a refid.
C1_RefidUnique ==
    \A i, j \in 1..Len(all_nodes) :
        i # j => nodes[all_nodes[i]].refid # nodes[all_nodes[j]].refid

\* C2: after union reparenting, a union X::U of three or more segments for
\* which a class-like node named X is registered, and a namespace named by
\* X without its last segment too, has that class as parent, is one of its
\* children and is no longer in the top-level union collection.
C2_UnionPrecedence ==
    pc = "reparentClassLike" =>
        \A u \in Registered : \A c \in Range(class_like) : \A n \in Range(namespaces) :
            LET parts == Split(nodes[u].name, ScopeSep)
            IN  ( /\ nodes[u].kind = "union"
                  /\ Len(parts) > 2
                  /\ nodes[c].name = Join(ScopeSep, DropLast(parts, 1))
                  /\ nodes[n].name = Join(ScopeSep, DropLast(parts, 2)) )
                => /\ nodes[u].parent # 0
                   /\ ClassLike(nodes[u].parent)
                   /\ nodes[nodes[u].parent].name = nodes[c].name
                   /\ InList(u, nodes[nodes[u].parent].children)
                   /\ ~InList(u, unions)

\* C3: a Node that has a defined_in_file keeps it in every later step.
C3_DefinedInFileKept ==
    [][\A n \in NodeIds :
          nodes[n].def_in_file # 0 => nodes'[n].def_in_file = nodes[n].def_in_file]_vars

\* the files whose program listing refers to refid as a member
ReferringFiles(refid) ==
    {f \in Range(files) : ListingRefersTo(nodes[f].refid, refid)}

Unowned(n) ==
    /\ nodes[n].def_in_file = 0
    /\ nodes[n].kind \notin {"file", "dir", "group", "namespace"}

\* C4: the ambiguous-ownership resolution leaves defined_in_file = none for
\* every Node without one whose refid is referenced as a member from the
\* listings of no file or of two or more files.
C4_NoGuessing ==
    [][pc = "resolveMissingFileDef" =>
          \A n \in NodeIds :
              (Unowned(n) /\ Cardinality(ReferringFiles(nodes[n].refid)) # 1)
                  => nodes'[n].def_in_file = 0]_vars

\* C4 witness: the resolution has run and left a Node that two files refer
\* to without a defined_in_file
C4_Witness ==
    /\ pc = "reparentUnions"
    /\ \E n \in NodeIds :
          Unowned(n) /\ Cardinality(ReferringFiles(nodes[n].refid)) >= 2

\* C5: a Node without defined_in_file whose refid is referenced as a member
\* from the listing of exactly one file F has defined_in_file = F after the
\* ambiguous-ownership resolution.
C5_UniqueCandidate ==
    [][pc = "resolveMissingFileDef" /\ pc' # "failed" =>
          \A n \in NodeIds : \A f \in Range(files) :
              (Unowned(n) /\ ReferringFiles(nodes[n].refid) = {f})
                  => nodes'[n].def_in_file = f]_vars

\* p's path is d's path without its last segment
IsParentPath(p, d) ==
    /\ StartsWith(nodes[d].name, nodes[p].name \o PathSep)
    /\ ~Contains(PathSep, SubSeq(nodes[d].name, Len(nodes[p].name) + 2, Len(nodes[d].name)))

DirNodes == {n \in Registered : nodes[n].kind = "dir"}

\* C6: after directory reparenting, whatever the registration order, a
\* directory is a child of the directory whose path is its own minus the
\* last segment and has it as parent, and only directories without such a
\* directory are in the top-level collection.
C6_DirectoryNesting ==
    pc \in AfterReparentDirectories =>
        \A d \in DirNodes :
            /\ \A p \in DirNodes :
                  IsParentPath(p, d) =>
                      /\ nodes[d].parent = p
                      /\ InList(d, nodes[p].children)
                      /\ ~InList(d, dirs)
            /\ (~\E p \in DirNodes : IsParentPath(p, d)) =>
                  (nodes[d].parent = 0 /\ InList(d, dirs))

\* C6 witness: inc/sub/deep, inc/sub, inc registered deepest first, nested
\* in one chain with inc alone at the top level
C6_Witness ==
    /\ pc = "renameToNamespaceScopes"
    /\ Len(index) = 3
    /\ index[1].name = Name_deep /\ index[2].name = Name_sub /\ index[3].name = Name_inc
    /\ dirs = <<3>>
    /\ nodes[1].parent = 2 /\ nodes[2].parent = 3
    /\ nodes[2].children = <<1>> /\ nodes[3].children = <<2>>

NamespaceNodes == {n \in Registered : nodes[n].kind = "namespace"}

HasNamespaceParent(n) ==
    nodes[n].parent # 0 /\ nodes[nodes[n].parent].kind = "namespace"

\* C7: after the Reparenting Engine a namespace whose parent is a namespace
\* is not in the top-level namespace collection and is reachable through
\* children from a namespace that is; any other namespace is top-level.
C7_NamespaceCollapse ==
    pc \in AfterReparentAll =>
        \A n \in NamespaceNodes :
            IF HasNamespaceParent(n)
            THEN ~InList(n, namespaces) /\ n \in Reachable(Range(namespaces))
            ELSE InList(n, namespaces)

\* two graphs with the same members in every top-level collection and the
\* same name, parent and set of children for every Node
SameGraph(G, H) ==
    /\ Len(G.nodes) = Len(H.nodes)
    /\ \A n \in 1..Len(G.nodes) :
          /\ G.nodes[n].name = H.nodes[n].name
          /\ G.nodes[n].parent = H.nodes[n].parent
          /\ Range(G.nodes[n].children) = Range(H.nodes[n].children)
    /\ \A field \in {"class_like", "defines", "enums", "enum_values", "functions",
                     "dirs", "files", "groups", "namespaces", "typedefs", "unions",
                     "variables"} :
          Range(G[field]) = Range(H[field])

\* C8: the graph reparentAll has produced is a fixpoint of reparentAll.
C8_Fixpoint ==
    pc = "indexByRefid" => \A G \in reparentAll(Root) : SameGraph(G, Root)

\* C9: no Node has a parent of kind file, and the File-Reference Resolver,
\* which adds children to files, changes no Node's parent.
C9_NoFileParent ==
    /\ [](\A n \in NodeIds : nodes[n].parent # 0 => nodes[nodes[n].parent].kind # "file")
    /\ [][pc = "fileRefDiscovery" =>
            \A n \in NodeIds : nodes'[n].parent = nodes[n].parent]_vars

\* C9 witness: the pipeline is through and a file has a child that it
\* defines (from its member list or from the resolver)
C9_Witness ==
    /\ pc = "done"
    /\ \E f \in NodeIds : \E i \in 1..Len(nodes[f].children) :
          /\ nodes[f].kind = "file"
          /\ nodes[nodes[f].children[i]].def_in_file = f

\* C10: from the end of the Reparenting Engine on, no Node's children lists
\* the same Node twice.
C10_NoDuplicateChildren ==
    pc \in AfterReparentAll => \A n \in NodeIds : NoDuplicates(nodes[n].children)

\* C10 witness: a union that its namespace got twice, from the namespace's
\* member list and from union reparenting, is listed once after the engine
C10_Witness ==
    /\ pc = "indexByRefid"
    /\ \E n \in NodeIds : \E u \in Range(nodes[n].children) :
          /\ nodes[n].kind = "namespace" /\ nodes[u].kind = "union"
          /\ nodes[u].parent = n
          /\ \E i \in 1..Len(index) : \E k \in 1..Len(index[i].members) :
                index[i].refid = nodes[n].refid /\ index[i].members[k].refid = nodes[u].refid

\* the Nodes of the top-level collections
TopLevel ==
    UNION {Range(lst) : lst \in {class_like, defines, enums, enum_values, functions,
                                 dirs, files, groups, namespaces, typedefs, unions,
                                 variables}}

\* the top-level collection of n's kind
KindList(n) ==
    CASE ClassLike(n) -> class_like
      [] nodes[n].kind = "union" -> unions
      [] nodes[n].kind = "namespace" -> namespaces
      [] nodes[n].kind = "dir" -> dirs
      [] OTHER -> <<>>

\* C11: a registered Node stays registered, and after the Reparenting
\* Engine every class-like, union, namespace or dir Node that is no longer
\* in its kind's top-level collection is reachable through children from a
\* Node of a top-level collection.
C11_NoOrphans ==
    /\ [][\A n \in Registered : InList(n, all_nodes')]_vars
    /\ [](pc \in AfterReparentAll =>
            \A n \in Registered :
                ( /\ nodes[n].kind \in {"class", "struct", "union", "namespace", "dir"}
                  /\ ~InList(n, KindList(n)) )
                    => n \in Reachable(TopLevel))

\* the files whose detail record is missing, is not XML or lacks its root
BadFiles == {f \in Range(files) : XmlOf(nodes[f].refid).status # "ok"}

AfterScanFileXml ==
    {"scanNamespaceXml", "resolveMissingFileDef"} \cup {"reparentUnions"}
        \cup AfterReparentUnions

\* C12: a file whose detail record is missing, unreadable or malformed
\* does not abort the pipeline; once the file records are scanned it has a
\* diagnostic, and the record of every other file has been processed.
C12_DetailFailureRecovered ==
    /\ BadFiles # {} => pc # "failed"
    /\ pc \in AfterScanFileXml =>
          /\ \A f \in BadFiles : \E d \in diag : d.node = f
          /\ \A f \in Range(files) \ BadFiles : nodes[f].has_soup

\* the stages in the order of the claim: Discovery (the index, the file
\* records, the namespace records, the ambiguous ownerships), the five
\* reparenting sub-passes, de-duplication, registry indexing, the
\* File-Reference Resolver, Directory Attachment, Ordering
StageOrder ==
    <<"discoverAllNodes", "scanFileXml", "scanNamespaceXml", "resolveMissingFileDef",
      "reparentUnions", "reparentClassLike", "reparentDirectories",
      "renameToNamespaceScopes", "reparentNamespaces", "deduplicate", "indexByRefid",
      "fileRefDiscovery", "filePostProcess", "sortInternals", "done">>

\* C13: every step of parse() ends one stage and starts the next one of
\* the order (or ends the run on an uncaught exception), so each stage
\* runs once and none starts before the one before it has finished.
C13_StageOrder ==
    [][\E i \in 1..(Len(StageOrder) - 1) :
          /\ pc = StageOrder[i]
          /\ pc' \in {StageOrder[i + 1], "failed"}]_vars

\* C13 witness: Ordering has finished on a graph that reparenting changed
C13_Witness ==
    /\ pc = "done"
    /\ \E n \in NodeIds : nodes[n].parent # 0
    /\ \E n \in NodeIds : nodes[n].kind = "file" /\ nodes[n].children # <<>>

\* the directories that have f among their children
DirsHolding(f) == {d \in NodeIds : nodes[d].kind = "dir" /\ InList(f, nodes[d].children)}

\* the directories reachable from the top-level collection whose name is
\* the directory path of f's location
DirsNamed(f) ==
    {d \in Reachable(Range(dirs)) :
        nodes[d].kind = "dir" /\ nodes[d].name = DirPath(nodes[f].location)}

\* C16: after Directory Attachment a file whose location has a directory
\* path is the child of the reachable directory of exactly that name, has
\* it as parent and is the child of no other directory; with no such
\* directory, or with an empty directory path, it is attached to none.
C16_DirectoryAttachment ==
    pc \in {"sortInternals", "done"} =>
        \A f \in Range(files) :
            IF DirPath(nodes[f].location) # <<>> /\ DirsNamed(f) # {}
            THEN /\ nodes[f].parent \in DirsNamed(f)
                 /\ DirsHolding(f) = {nodes[f].parent}
            ELSE /\ nodes[f].parent = 0
                 /\ DirsHolding(f) = {}

\* C17: union reparenting removes a union from the top-level collection
\* exactly when its parent has become a class or struct; a union whose
\* parent is a namespace afterwards is one of the namespace's children and
\* is still in the top-level collection.
C17_NamespaceUnionStays ==
    [][pc = "reparentUnions" =>
          \A u \in Range(unions) :
              LET p == nodes'[u].parent
              IN  /\ ~InList(u, unions') <=> (p # 0 /\ nodes'[p].kind \in {"class", "struct"})
                  /\ (p # 0 /\ nodes'[p].kind = "namespace")
                        => (InList(u, nodes'[p].children) /\ InList(u, unions'))]_vars

\* C17 witness: union A::B::U, no member of any compound, has been attached
\* to a namespace by union reparenting and is still a top-level union
C17_Witness ==
    /\ pc = "reparentClassLike"
    /\ \E u \in Range(unions) :
          /\ nodes[u].name = Name_ABU
          /\ nodes[u].parent # 0
          /\ nodes[nodes[u].parent].kind = "namespace"
          /\ InList(u, nodes[nodes[u].parent].children)

\* the Nodes registered for the enumvalue members of the index
EnumValueMembers ==
    {n \in Registered :
        /\ nodes[n].kind = "enumvalue"
        /\ \E i \in 1..Len(index) : \E k \in 1..Len(index[i].members) :
              /\ index[i].members[k].kind = "enumvalue"
              /\ index[i].members[k].refid = nodes[n].refid}

\* C18: when the index has been read, every enumvalue member of a
\* namespace or file compound is registered and in the enumvalue
\* collection, is a child of no Node and has no parent.
C18_EnumValueUnlinked ==
    pc = "scanFileXml" =>
        /\ \A i \in 1..Len(index) : \A k \in 1..Len(index[i].members) :
              index[i].members[k].kind = "enumvalue"
                  => \E n \in EnumValueMembers :
                        nodes[n].refid = index[i].members[k].refid /\ InList(n, enum_values)
        /\ \A n \in EnumValueMembers :
              /\ nodes[n].parent = 0
              /\ \A o \in NodeIds : ~InList(n, nodes[o].children)

\* the class-like Nodes named by all but the last segment of c's name
PrefixClasses(c) ==
    LET parts == Split(nodes[c].name, ScopeSep)
    IN  IF Len(parts) > 1
        THEN {p \in Registered :
                 ClassLike(p) /\ nodes[p].name = Join(ScopeSep, DropLast(parts, 1))}
        ELSE {}

\* C21: when class-like reparenting has run, a class-like Node whose name
\* without its last segment names a class-like Node is a child of such a
\* Node, has it as parent and is out of the top-level collection; every
\* other class-like Node is in the top-level collection.
C21_ClassNesting ==
    pc = "reparentDirectories" =>
        \A c \in Registered :
            ClassLike(c) =>
                IF PrefixClasses(c) # {}
                THEN /\ nodes[c].parent \in PrefixClasses(c)
                     /\ InList(c, nodes[nodes[c].parent].children)
                     /\ ~InList(c, class_like)
                ELSE InList(c, class_like)

\* C21 witness: A::B::C, A::B, A registered deepest first; each is nested
\* under its prefix and A alone is top-level
C21_Witness ==
    /\ pc = "reparentDirectories"
    /\ Len(index) = 3
    /\ index[1].refid = Refid_cABC /\ index[2].refid = Refid_sAB /\ index[3].refid = Refid_cA
    /\ class_like = <<3>>
    /\ nodes[1].parent = 2 /\ nodes[2].parent = 3
    /\ nodes[2].children = <<1>> /\ nodes[3].children = <<2>>

\* the unions that union reparenting attached to a class or struct
ClassUnions ==
    {u \in Registered :
        /\ nodes[u].kind = "union"
        /\ ~InList(u, unions)
        /\ nodes[u].parent # 0
        /\ ClassLike(nodes[u].parent)
        /\ InList(u, nodes[nodes[u].parent].children)}

C23_NamespaceScopeNames ==
    [][pc = "renameToNamespaceScopes" =>
          \A n \in Range(namespaces) : \A c \in Range(nodes[n].children) :
              LET prefix == nodes[n].name \o ScopeSep
              IN  /\ StartsWith(nodes'[c].name, prefix)
                  /\ IF StartsWith(nodes[c].name, prefix)
                     THEN nodes'[c].name = nodes[c].name
                     ELSE nodes'[c].name = prefix \o nodes[c].name]_vars

\* the Nodes whose comparisons are recorded
ComparedNodes == {p[1] : p \in DOMAIN verdict}

SameLoweredName(a, b) == Lower(nodes[a].name) = Lower(nodes[b].name)

\* a and b are one a struct and the other a class
StructAndClass(a, b) ==
    \/ nodes[a].kind = "struct" /\ nodes[b].kind = "class"
    \/ nodes[a].kind = "class" /\ nodes[b].kind = "struct"

\* C14: the comparator is a strict total order: never both A < B and
\* B < A; A < B and B < C imply A < C; and of two Nodes that differ in kind
\* or in lowered name exactly one is less than the other.
C14_StrictTotalOrder ==
    \A a, b, c \in ComparedNodes :
        /\ ~(verdict[<<a, b>>] /\ verdict[<<b, a>>])
        /\ (verdict[<<a, b>>] /\ verdict[<<b, c>>]) => verdict[<<a, c>>]
        /\ (nodes[a].kind # nodes[b].kind \/ ~SameLoweredName(a, b))
              => (verdict[<<a, b>>] \/ verdict[<<b, a>>])

\* the lists sortInternals has sorted: the top-level collections and every
\* Node's children
SortedLists ==
    {class_like, defines, enums, enum_values, functions, dirs, files, groups,
     namespaces, typedefs, unions, variables}
        \cup {nodes[n].children : n \in 1..Len(nodes)}

\* C15: in a sorted list a struct stands before every class whose lowered
\* name equals its own, whatever the order the list had.
C15_StructBeforeClass ==
    pc = "sorted" =>
        \A lst \in SortedLists : \A i, j \in 1..Len(lst) :
            ( /\ nodes[lst[i]].kind = "struct"
              /\ nodes[lst[j]].kind = "class"
              /\ SameLoweredName(lst[i], lst[j]) ) => i < j

\* C19: of a struct and a class whose lowered names differ, the one with
\* the smaller lowered name is the lesser; the struct is the lesser on the
\* strength of its kind only when the lowered names are equal.
C19_FamilyByName ==
    \A a, b \in ComparedNodes :
        (StructAndClass(a, b) /\ ~SameLoweredName(a, b))
            => (verdict[<<a, b>>] <=> StrLt(Lower(nodes[a].name), Lower(nodes[b].name)))

\* C20: of two Nodes of different kinds that are not both struct or class,
\* A is less than B exactly when A's kind tag is the smaller string.
C20_KindOrder ==
    \A a, b \in ComparedNodes :
        (nodes[a].kind # nodes[b].kind /\ ~StructAndClass(a, b))
            => (verdict[<<a, b>>] <=> StrLt(KindText(nodes[a].kind), KindText(nodes[b].kind)))

\* the lists Ordering sorts deeply: five top-level collections and the
\* children of every Node reachable from them
DeepSortedLists ==
    {class_like, namespaces, unions, files, dirs}
        \cup {nodes[n].children :
                 n \in Reachable(Range(class_like) \cup Range(namespaces) \cup Range(unions)
                                     \cup Range(files) \cup Range(dirs))}

\* C24: after Ordering no element of a deeply sorted list compares less than
\* an element that stands before it, mixed-kind children lists included.
C24_DeepSorted ==
    pc = "done" =>
        \A lst \in DeepSortedLists : \A i, j \in 1..Len(lst) :
            i < j => ~NodeLt(nodes[lst[j]], nodes[lst[i]])

\* C25: in every state between the stages a Node with a parent is one of
\* the parent's children.
C25_ParentListsChild ==
    \A n \in 1..Len(nodes) :
        nodes[n].parent # 0 => InList(n, nodes[nodes[n].parent].children)

\* C25 witness: the pipeline has ended with a file whose parent is a
\* directory that has a directory as parent itself, each listed by its parent
C25_Witness ==
    /\ pc = "done"
    /\ \E f \in Range(files) : \E d, e \in DirNodes :
          /\ nodes[f].parent = d /\ InList(f, nodes[d].children)
          /\ nodes[d].parent = e /\ InList(d, nodes[e].children)

\* the Nodes that are not files and list n among their children
StructuralOwners(n) ==
    {p \in 1..Len(nodes) : nodes[p].kind # "file" /\ InList(n, nodes[p].children)}

\* C26: at the end of the pipeline a Node is among the children of at most
\* one Node that is not a file, and that Node is its parent; a Node whose
\* parent is a class or a struct is a child of no namespace.
C26_OwnershipForest ==
    pc = "done" =>
        \A n \in 1..Len(nodes) :
            /\ Cardinality(StructuralOwners(n)) <= 1
            /\ \A p \in StructuralOwners(n) : nodes[n].parent = p
            /\ (nodes[n].parent # 0 /\ ClassLike(nodes[n].parent))
                  => \A p \in StructuralOwners(n) : nodes[p].kind # "namespace"

\* C27: in every state no Node is reachable from itself by following
\* children.
C27_ChildrenAcyclic ==
    \A n \in 1..Len(nodes) : n \notin Reachable(Range(nodes[n].children))

\* a step of parse(): the stage pc names ends.  Every stage can always run,
\* so Next is enabled exactly when Advance is, and every step of Next is one
\* of Advance
Advance ==
    /\ pc \notin {"done", "failed"}
    /\ pc' \in (Range(StageOrder) \cup {"failed"}) \ {pc}

\* parse() runs its stages one after the other without waiting for anything:
\* a stage that can run does run
LiveSpec == Init /\ [][Next]_vars /\ WF_pc(Advance)

\* C28: parse() comes to an end for every input, and the recursive deep sort
\* of sortInternals returns: Ordering ends with the pipeline done.
C28_Terminates ==
    /\ <>(pc \in {"done", "failed"})
    /\ [][pc = "sortInternals" => pc' = "done"]_vars

\* b lists the members of a, each as often as a does
IsPermutation(a, b) ==
    /\ Len(a) = Len(b)
    /\ \A x \in Range(a) \cup Range(b) :
          Cardinality({i \in 1..Len(a) : a[i] = x}) = Cardinality({i \in 1..Len(b) : b[i] = x})

\* the top-level collections
Collections ==
    <<class_like, defines, enums, enum_values, functions, dirs, files, groups,
      namespaces, typedefs, unions, variables>>

\* C29: Ordering leaves every top-level collection and every children list
\* with the members it had, each as often as before, and changes no Node's
\* name, kind, refid, parent or defining file.
C29_OrderingPermutes ==
    [][pc = "sortInternals" =>
          /\ \A k \in 1..Len(Collections) : IsPermutation(Collections[k], Collections'[k])
          /\ Len(nodes') = Len(nodes)
          /\ \A n \in 1..Len(nodes) :
                /\ IsPermutation(nodes[n].children, nodes'[n].children)
                /\ nodes'[n].name = nodes[n].name
                /\ nodes'[n].kind = nodes[n].kind
                /\ nodes'[n].refid = nodes[n].refid
                /\ nodes'[n].parent = nodes[n].parent
                /\ nodes'[n].def_in_file = nodes[n].def_in_file]_vars

\* C29 witness: Ordering has run on s.h, registered before S; the children
\* of s.h, the function go and then the struct S, stand in the other order
C29_Witness ==
    /\ pc = "done"
    /\ Len(index) = 2
    /\ index[1].refid = Refid_sh /\ index[2].refid = Refid_S
    /\ nodes[1].children = <<3, 2>>
    /\ nodes[2].kind = "function" /\ nodes[3].kind = "struct"

\* parse() on the index idx up to the end of union reparenting: the stages
\* of discoverAllNodes, then reparentUnions; an uncaught exception ends it
RunToUnions(idx) ==
    LET G0 == discoverCompounds(EmptyRoot, idx)
        G1 == IF G0.crashed THEN G0 ELSE scanFileXml(G0, G0.files)
        G2 == IF G1.crashed THEN G1 ELSE scanNamespaceXml(G1, G1.namespaces)
        G3 == IF G2.crashed THEN G2 ELSE resolveMissingFileDef(G2)
    IN  IF G3.crashed THEN G3 ELSE reparentUnions(G3)

\* the parent of every union of G, Nodes named by refid (<<>> for no parent)
UnionParents(G) ==
    {<<G.nodes[u].refid,
       IF G.nodes[u].parent = 0 THEN <<>> ELSE G.nodes[G.nodes[u].parent].refid>> :
         u \in {n \in Range(G.all_nodes) : G.nodes[n].kind = "union"}}

\* C30: after union reparenting every union has the parent it gets when the
\* same compounds are registered in any other order.
C30_UnionOrderIndependent ==
    pc = "reparentClassLike" =>
        \A other \in Perms(Range(index)) :
            ~RunToUnions(other).crashed => UnionParents(RunToUnions(other)) = UnionParents(Root)

====
